---- MODULE Spec2Model ----
(***************************************************************************)
(* A model of LibSio: the packed single-word pointer containers            *)
(* (PointerSized, AlignedPointerContainer, PointerMSBContainer,            *)
(* FatPointer), the cacheline-bounded open-addressing HashMap built on     *)
(* them, and the fixed-length StaticHashMap with the HashMapLF100 on it.   *)
(*                                                                         *)
(* A 64-bit machine word is the set of the positions of its 1 bits, so     *)
(* that & is \cap, | is \cup and the shifts move positions.  The key and   *)
(* value arrays of a table are kept sparsely: a slot that is absent from   *)
(* the key function holds the empty key, a slot absent from the value      *)
(* function holds no constructed value.                                    *)
(***************************************************************************)
EXTENDS Integers, Sequences, FiniteSets, TLC

VARIABLES underlying, heap, nalloc, live, last, script, pc, pk, shm

hmvars == <<underlying, heap, nalloc>>
vars == <<underlying, heap, nalloc, live, last, script, pc, pk, shm>>

(***************************************************************************)
(* Machine words                                                           *)
(***************************************************************************)
WordWidth == 64
IntWidth == 32

Bit == 0 .. (WordWidth - 1)

\* the word of a small natural number (below 2^31)
WordOf(n) == {i \in 0 .. 30 : (n \div (2 ^ i)) % 2 = 1}

RECURSIVE NatOf(_)
\* the natural number of a word whose bits all lie below bit 31
NatOf(w) == IF w = {} THEN 0
            ELSE LET i == CHOOSE j \in w : TRUE
                 IN (2 ^ i) + NatOf(w \ {i})

Shl(w, k) == {i + k : i \in w} \cap Bit
\* >> of an unsigned operand
Shr(w, k) == {i - k : i \in w} \cap Bit
\* >> of a signed operand (intptr_t): the sign bit is copied in
Sar(w, k) == Shr(w, k) \cup (IF (WordWidth - 1) \in w
                             THEN (WordWidth - k) .. (WordWidth - 1) ELSE {})
Not(w) == Bit \ w

(***************************************************************************)
(* PointerSized< A, size_a, B >, as AlignedPointerContainer instantiates   *)
(* it: size_a is the number of alignment bits of a 64-byte alignment.      *)
(***************************************************************************)
RECURSIVE AlignmentBits(_)
AlignmentBits(align) == IF align = 1 THEN 0 ELSE 1 + AlignmentBits(align \div 2)

alignment == 64
align_bits == AlignmentBits(alignment)
size_a == align_bits

RECURSIVE ProduceMask(_)
ProduceMask(n) == IF n = 0 THEN {0} ELSE {n} \cup ProduceMask(n - 1)

fst_mask == ProduceMask(size_a - 1)
snd_mask == ProduceMask(WordWidth - 1) \cap Not(fst_mask)

\* the value is or-ed in as it is: nothing masks it to size_a bits
setFst(u, x) == (u \cap snd_mask) \cup x
setSnd(u, x) == (u \cap fst_mask) \cup Shl(x, size_a)
fst(u) == u \cap fst_mask
snd(u) == Shr(u \cap snd_mask, size_a)

\* PointerSized( A x, B y )
PointerSized(x, y) == setSnd(setFst({}, x), y)

(***************************************************************************)
(* AlignedPointerContainer< T, inttype, 64 >                               *)
(***************************************************************************)
\* AlignedPointerContainer() : underlying { 0, 0 }
APC_default == PointerSized({}, {})
\* AlignedPointerContainer( T* x, inttype y ) : underlying { y, ( intptr_t ) x }
APC_ctor(x, y) == PointerSized(y, x)
APC_ptr(u) == Shl(snd(u), align_bits)
APC_num(u) == fst(u)
\* the assertion of setPtr
APC_setPtr_aligned(x) == (x \cap fst_mask) = {}
APC_setPtr(u, x) == setSnd(u, Sar(x, align_bits))
APC_setNum(u, x) == setFst(u, x)

(***************************************************************************)
(* Word arithmetic for the products the containers compute                 *)
(***************************************************************************)
RECURSIVE AddFrom(_, _, _, _)
AddFrom(a, b, i, carry) ==
    IF i = WordWidth
    THEN {}
    ELSE LET t == (IF i \in a THEN 1 ELSE 0) + (IF i \in b THEN 1 ELSE 0) + carry
         IN (IF t % 2 = 1 THEN {i} ELSE {}) \cup AddFrom(a, b, i + 1, t \div 2)

\* a + b and a * b of 64-bit unsigned words
Add(a, b) == AddFrom(a, b, 0, 0)

RECURSIVE Mul(_, _)
Mul(a, b) == IF b = {} THEN {}
             ELSE LET i == CHOOSE j \in b : TRUE
                  IN Add(Shl(a, i), Mul(a, b \ {i}))

(***************************************************************************)
(* PointerMSBContainer< T >: is_signed = false, intptr_type = u64,         *)
(* significant_bits = 48.  Its masks are built from 1 << n with the int 1. *)
(* For n < 31 that is bit n; 1 << 31 is INT_MIN, which becomes bits 31..63 *)
(* of the u64 it is or-ed into; for n >= 32 the shift is undefined, and    *)
(* the build either folds it to 0 or takes the count modulo 32 (how is the *)
(* argument shl: "zero" or "wrap").                                        *)
(***************************************************************************)
significant_bits == 48

RECURSIVE IntShl1(_, _)
IntShl1(n, shl) ==
    IF n < IntWidth - 1 THEN {n}
    ELSE IF n = IntWidth - 1 THEN (IntWidth - 1) .. (WordWidth - 1)
    ELSE IF shl = "zero" THEN {}
    ELSE IntShl1(n % IntWidth, shl)

RECURSIVE BitmaskConstructor(_, _)
BitmaskConstructor(significant_bytecount, shl) ==
    IF significant_bytecount = 0
    THEN {}
    ELSE IntShl1(significant_bytecount - 1, shl)
           \cup BitmaskConstructor(significant_bytecount - 1, shl)

bitmask(shl) == BitmaskConstructor(significant_bits, shl)

\* ( inttype ) of a word, inttype being u16
inttype_bits == 16
AsInttype(w) == w \cap (0 .. (inttype_bits - 1))

MSB_num(u, shl) == AsInttype(Shr(u \cap Not(bitmask(shl)), significant_bits))

MSB_setPtr(u, x, shl) ==
    LET number == Shl(MSB_num(u, shl), significant_bits)
        top_zeroed_off == x \cap bitmask(shl)
    IN top_zeroed_off \cup number

MSB_setNum(u, x, shl) ==
    LET pointer == u \cap bitmask(shl)
        number == Shl(x, significant_bits)
    IN pointer \cup number

pad_pointer_according_to_last_significant_bit(u, shl) ==
    LET lsbit_mask == IntShl1(significant_bits - 1, shl)
        high_or_low == lsbit_mask \cap Shr(u, significant_bits - 1)
        padding == Mul(Not(bitmask(shl)), high_or_low)
        pointer == u \cap bitmask(shl)
    IN pointer \cup padding

MSB_ptr(u, shl) == pad_pointer_according_to_last_significant_bit(u, shl)

\* PointerMSBContainer( T* x, inttype integer ): setPtr reads the member
\* before anything has initialised it; junk is what it reads
MSB_ctor(junk, x, integer, shl) == MSB_setNum(MSB_setPtr(junk, x, shl), integer, shl)

(***************************************************************************)
(* FatPointer< T >, for an element type of 4 bytes                         *)
(***************************************************************************)
sizeof_T == 4

\* FatPointer( T* x, size_t n ) : underlying { x, n }
Fat_ctor(x, n) == APC_ctor(x, n)
\* ( PointerMSBContainer< T > ) ( underlying.ptr() ): the container whose
\* word is the pointer
msbcontainer(u) == APC_ptr(u)
Fat_ptr(u, shl) == MSB_ptr(msbcontainer(u), shl)
Fat_length(u, shl) == APC_num(u) \cup Shl(MSB_num(msbcontainer(u), shl), 6)
Fat_size(u, shl) == Mul(Fat_length(u, shl), WordOf(sizeof_T))
\* operator==
Fat_eq(u, x, shl) == Fat_ptr(u, shl) = Fat_ptr(x, shl) /\ Fat_length(u, shl) = Fat_length(x, shl)

(***************************************************************************)
(* HashMap< K, V, _hash, eq >, instantiated with a 32-byte key type        *)
(* holding an integer, the value 0 as its empty key, and standard_hash.    *)
(***************************************************************************)
initial_length == 7
sizeof_K == 32
no_index == -1
probe_limit == (64 * 2) \div sizeof_K
\* keys per cacheline: a key array starts on a cacheline boundary
keys_per_cacheline == 64 \div sizeof_K
empty_key == 0

\* hash_multiplier = 11400714819323198485 = ... + 15657 * 2^14 + 15381
hash_multiplier_lo == 15381
hash_multiplier_hi == 15657
limb == 2 ^ 14

\* standard_hash< K >: std::hash of an integer is the integer
standard_hash(k) == k

\* hash_secondary: _hash( x ) * hash_multiplier, a 64-bit product.  Every
\* table length is a power of two of at most 2^28 slots, so only the low 28
\* bits of the product are ever used, and these are what is computed here,
\* in 14-bit limbs, from the low 28 bits of the primary hash.
hash_secondary(k) ==
    LET x0 == standard_hash(k) % limb
        x1 == (standard_hash(k) \div limb) % limb
    IN ((x0 * hash_multiplier_lo)
          + ((((x0 * hash_multiplier_hi) + (x1 * hash_multiplier_lo)) % limb) * limb))
       % (limb * limb)

\* A table as a program sees it: s.u is the member `underlying`, s.heap the
\* allocations that are live (each a key array and a value array), s.nalloc
\* the number of allocations made so far; s.ub is raised when a growth would
\* take 1 << length_power() out of the int range.
kvs(u) == APC_ptr(u)
set_kvs(u, x) == APC_setPtr(u, x)
length_power(u) == NatOf(APC_num(u))
set_length_power(u, x) == APC_setNum(u, WordOf(x))
increase_length_power(u) == APC_setNum(u, WordOf(NatOf(APC_num(u)) * 2))
\* 1 << length_power(), an int
length(u) == 2 ^ length_power(u)
length_overflows(u) == length_power(u) > IntWidth - 2

NoSlots == [j \in {} |-> 0]
Put(f, i, x) == (i :> x) @@ f
Drop(f, i) == [j \in DOMAIN f \ {i} |-> f[j]]

keys(s, u) == s.heap[kvs(u)].keys
values(s, u) == s.heap[kvs(u)].vals
At(ks, i) == IF i \in DOMAIN ks THEN ks[i] ELSE empty_key

\* the slot index of the cacheline start of slot i
align_backwards_to_cacheline(i) == i - (i % keys_per_cacheline)

hash(u, k) == hash_secondary(k) % length(u)

\* aligned_alloc: a fresh 64-byte aligned address
aligned_alloc(n) == WordOf(alignment * (n + 1))

probe_start_of(u, k) == align_backwards_to_cacheline(hash(u, k))
\* a variant of probe_end_of that does not stop at the array end
probe_end_of_uncapped(u, k) == probe_start_of(u, k) + probe_limit

probe_end_of(u, k) ==
    LET probe_start == probe_start_of(u, k)
        arr_end == length(u)
    IN IF probe_start + probe_limit > arr_end
       THEN arr_end
       ELSE probe_start + probe_limit

RECURSIVE scan_past_empty(_, _, _, _, _)
\* a variant of scan that reads on past an empty slot
scan_past_empty(ks, k, i, probe_end, n) ==
    IF i < probe_end
    THEN IF At(ks, i) = k /\ k # empty_key
         THEN [at |-> i, found |-> TRUE, examined |-> n + 1]
         ELSE scan_past_empty(ks, k, i + 1, probe_end, n + 1)
    ELSE [at |-> i, found |-> FALSE, examined |-> n]

RECURSIVE scan(_, _, _, _, _)
\* the loop of get_index_for_key and of emplace over the key array ks:
\* where it stops, whether it stopped on the key, and how many slots it read
scan(ks, k, i, probe_end, n) ==
    IF i < probe_end
    THEN IF At(ks, i) # empty_key
         THEN IF At(ks, i) = k
              THEN [at |-> i, found |-> TRUE, examined |-> n + 1]
              ELSE scan(ks, k, i + 1, probe_end, n + 1)
         ELSE [at |-> i, found |-> FALSE, examined |-> n + 1]
    ELSE [at |-> i, found |-> FALSE, examined |-> n]

probe(s, u, k) == scan(keys(s, u), k, probe_start_of(u, k), probe_end_of(u, k), 0)

get_index_for_key(s, u, k) ==
    LET r == probe(s, u, k)
    IN IF r.found THEN r.at ELSE no_index

\* a variant of kill_cell that destroys the key and leaves the value
kill_cell_keeps_value(s, u, i) ==
    [s EXCEPT !.heap[kvs(u)] = [keys |-> Drop(@.keys, i), vals |-> @.vals]]

\* get / get_ref: the value, or Nothing
Nothing == 0
get(s, k) ==
    LET index == get_index_for_key(s, s.u, k)
    IN IF index # no_index THEN values(s, s.u)[index] ELSE Nothing

kill_cell(s, u, i) ==
    [s EXCEPT !.heap[kvs(u)] = [keys |-> Drop(@.keys, i), vals |-> Drop(@.vals, i)]]

distance(x, y) == IF x - y < 0 THEN y - x ELSE x - y

\* the move of reshuffle: slot start (empty) is copied over slot i, then
\* destroyed, and slot i is given the empty key
reshuffle_move(s, u, start, i) ==
    [s EXCEPT !.heap[kvs(u)] =
        [keys |-> Drop(@.keys, i),
         vals |-> IF start \in DOMAIN @.vals
                  THEN Drop(Put(@.vals, i, @.vals[start]), start)
                  ELSE Drop(@.vals, i)]]

\* the test of reshuffle on the entry at slot i, start being the vacated slot
reshuffle_wants(ks, len, start, i) ==
    LET hash_curr == hash_secondary(At(ks, i)) % len
        dist_i == distance(i, hash_curr)
        dist_start == distance(start, hash_curr)
    IN /\ start >= align_backwards_to_cacheline(hash_curr)
       /\ dist_i > dist_start
       /\ At(ks, i) = empty_key

RECURSIVE reshuffle(_, _, _), reshuffle_scan(_, _, _, _, _)
reshuffle_scan(s, u, start, i, probe_end) ==
    LET ks == keys(s, u)
    IN IF i < probe_end /\ At(ks, i) # empty_key
       THEN IF reshuffle_wants(ks, length(u), start, i)
            THEN reshuffle(reshuffle_move(s, u, start, i), u, i)
            ELSE reshuffle_scan(s, u, start, i + 1, probe_end)
       ELSE s

reshuffle(s, u, start) ==
    IF At(keys(s, u), start) # empty_key
    THEN s
    ELSE reshuffle_scan(s, u, start, start + 1,
                        IF start + probe_limit < length(u)
                        THEN start + probe_limit ELSE length(u))

\* the occupied slots from i on, for the loops that walk a whole key array
OccupiedFrom(ks, i) == {j \in DOMAIN ks : j >= i}
Least(S) == CHOOSE j \in S : \A l \in S : j <= l

\* a variant of is_empty_key that lets the empty key through
is_empty_key_never(k) == FALSE

\* the test at the head of emplace
is_empty_key(k) == k = empty_key

RECURSIVE emplace(_, _, _), double_size(_), foreach_insert(_, _, _), foreach_slots(_, _, _)

\* a variant of foreach_insert that stops after the first entry it moves
foreach_insert_first_only(s, hm, i) ==
    LET old == s.heap[kvs(hm)]
        rest == OccupiedFrom(old.keys, i)
    IN IF rest = {}
       THEN s
       ELSE emplace(s, old.keys[Least(rest)], old.vals[Least(rest)]).s

\* a variant of foreach_insert that copies each old slot to the slot of the
\* same index in the new array instead of inserting its key again
foreach_insert_in_place(s, hm, i) ==
    [s EXCEPT !.heap[kvs(s.u)] = s.heap[kvs(hm)]]

\* the loop of foreach_lambda over the occupied slots of the array old, in
\* ascending order: the lower half of them, then the upper half
foreach_slots(s, old, slots) ==
    IF slots = {}
    THEN s
    ELSE IF Cardinality(slots) = 1
         THEN emplace(s, old.keys[Least(slots)], old.vals[Least(slots)]).s
         ELSE LET mid == CHOOSE m \in slots :
                             Cardinality({j \in slots : j < m}) = Cardinality(slots) \div 2
                  lower == foreach_slots(s, old, {j \in slots : j < mid})
              IN IF lower.ub
                 THEN lower
                 ELSE foreach_slots(lower, old, {j \in slots : j >= mid})

\* foreach_lambda of the old table hm, calling insert on the table itself
foreach_insert(s, hm, i) ==
    foreach_slots(s, s.heap[kvs(hm)], OccupiedFrom(s.heap[kvs(hm)].keys, i))

\* a variant of destroy that destroys the cells and keeps the allocation
destroy_keeps_allocation(s, u) ==
    [s EXCEPT !.heap[kvs(u)] = [keys |-> NoSlots, vals |-> NoSlots]]

\* ~HashMap: every cell is destroyed and the allocation is freed; to destroy
\* the cells of an allocation that is not live, or to free it, is undefined
destroy(s, u) ==
    IF kvs(u) \in DOMAIN s.heap
    THEN [s EXCEPT !.heap = [a \in DOMAIN @ \ {kvs(u)} |-> @[a]]]
    ELSE [s EXCEPT !.ub = TRUE]

double_size(s) ==
    LET hm == s.u
        grown == increase_length_power(s.u)
        fresh == aligned_alloc(s.nalloc)
        s2 == [s EXCEPT !.u = set_kvs(grown, fresh),
                        !.nalloc = @ + 1,
                        !.heap = [a \in DOMAIN @ \cup {fresh} |->
                                     IF a = fresh
                                     THEN [keys |-> NoSlots, vals |-> NoSlots]
                                     ELSE @[a]]]
    IN destroy(foreach_insert(s2, hm, 0), hm)

\* emplace( k, args... ): the table afterwards and the value returned
emplace(s, k, v) ==
    IF is_empty_key(k)
    THEN [s |-> s, ret |-> FALSE]
    ELSE LET r == probe(s, s.u, k)
         IN IF r.found
            THEN [s |-> s, ret |-> FALSE]
            ELSE IF r.at = probe_end_of(s.u, k)
                 THEN IF length_overflows(increase_length_power(s.u))
                      THEN [s |-> [s EXCEPT !.ub = TRUE], ret |-> FALSE]
                      ELSE emplace(double_size(s), k, v)
                 ELSE [s |-> [s EXCEPT !.heap[kvs(s.u)] =
                                 [keys |-> Put(@.keys, r.at, k),
                                  vals |-> Put(@.vals, r.at, v)]],
                       ret |-> TRUE]

insert(s, k, v) == emplace(s, k, v)

\* a variant of rm that removes the entry at the start of the probe window
\* of the key without comparing keys
rm_no_compare(s, k) ==
    LET start == probe_start_of(s.u, k)
    IN reshuffle(kill_cell(s, s.u, start), s.u, start)

rm(s, k) ==
    LET index == get_index_for_key(s, s.u, k)
    IN IF index # no_index
       THEN reshuffle(kill_cell(s, s.u, index), s.u, index)
       ELSE s

\* a variant of clear_from that returns after the first cell it kills
clear_first_only(s, i) ==
    LET rest == OccupiedFrom(keys(s, s.u), i)
    IN IF rest = {} THEN s ELSE kill_cell(s, s.u, Least(rest))

RECURSIVE clear_from(_, _)
clear_from(s, i) ==
    LET rest == OccupiedFrom(keys(s, s.u), i)
    IN IF rest = {}
       THEN s
       ELSE clear_from(kill_cell(s, s.u, Least(rest)), Least(rest) + 1)

clear(s) == clear_from(s, 0)

\* the number of occupied slots
count(s) == Cardinality(DOMAIN keys(s, s.u))

\* a variant of foreach_lambda that stops after the first call of fn
foreach_lambda_once(s, i) ==
    LET rest == OccupiedFrom(keys(s, s.u), i)
    IN IF rest = {}
       THEN <<>>
       ELSE <<[i |-> Least(rest), k |-> keys(s, s.u)[Least(rest)],
               v |-> values(s, s.u)[Least(rest)]]>>

RECURSIVE foreach_lambda(_, _)
\* foreach, foreach_lambda (and, without the key, foreach_value and
\* foreach_value_lambda) from slot i on: the calls of fn, in order
foreach_lambda(s, i) ==
    LET rest == OccupiedFrom(keys(s, s.u), i)
    IN IF rest = {}
       THEN <<>>
       ELSE <<[i |-> Least(rest), k |-> keys(s, s.u)[Least(rest)],
               v |-> values(s, s.u)[Least(rest)]]>>
                \o foreach_lambda(s, Least(rest) + 1)

\* HashMap( K _empty_key )
HashMap ==
    LET u0 == set_length_power(APC_default, initial_length)
        x == aligned_alloc(0)
    IN [u |-> set_kvs(u0, x),
        heap |-> [a \in {x} |-> [keys |-> NoSlots, vals |-> NoSlots]],
        nalloc |-> 1,
        ub |-> FALSE]

\* the table of the current state
Self == [u |-> underlying, heap |-> heap, nalloc |-> nalloc, ub |-> FALSE]

(***************************************************************************)
(* A client of one HashMap: any mix of emplace, rm, clear and get.         *)
(* live is what the calls so far promise: the keys whose last successful   *)
(* emplace was not followed by rm or clear, with the value of that         *)
(* emplace.  last is the call just made and its result; for clear and rm,  *)
(* n0 is the number of occupied slots the call found.                      *)
(***************************************************************************)
MaxVal == 2
Vals == 1 .. MaxVal

\* three keys that hash to the last slot both of a table of 2^7 slots and of
\* one of 2^14 slots, where the array end cuts the probe window to the two
\* slots of the last cacheline; in a table of 2^28 slots they lie far apart
Keys == {3267, 19651, 36035}

Stored(s, k) == \E i \in DOMAIN keys(s, s.u) : keys(s, s.u)[i] = k

Idle == /\ script = <<>>
        /\ pc = 0
        /\ pk = 0
        /\ shm = 0

Init ==
    /\ underlying = HashMap.u
    /\ heap = HashMap.heap
    /\ nalloc = HashMap.nalloc
    /\ live = NoSlots
    /\ last = [op |-> "new", k |-> empty_key, ret |-> FALSE, n0 |-> 0]
    /\ Idle

Becomes(s) ==
    /\ ~s.ub
    /\ underlying' = s.u
    /\ heap' = s.heap
    /\ nalloc' = s.nalloc

Emplace(k, v) ==
    LET r == emplace(Self, k, v)
    IN /\ Becomes(r.s)
       /\ live' = IF r.ret THEN Put(live, k, v) ELSE live
       /\ last' = [op |-> "emplace", k |-> k, ret |-> r.ret, n0 |-> 0]
       /\ UNCHANGED <<script, pc, pk, shm>>

Rm(k) ==
    /\ Becomes(rm(Self, k))
    /\ live' = Drop(live, k)
    /\ last' = [op |-> "rm", k |-> k, ret |-> FALSE, n0 |-> count(Self)]
    /\ UNCHANGED <<script, pc, pk, shm>>

Clear ==
    /\ Becomes(clear(Self))
    /\ live' = NoSlots
    /\ last' = [op |-> "clear", k |-> empty_key, ret |-> FALSE, n0 |-> count(Self)]
    /\ UNCHANGED <<script, pc, pk, shm>>

\* get( k ): ret is the value found, or Nothing
Get(k) ==
    /\ last' = [op |-> "get", k |-> k, ret |-> get(Self, k), n0 |-> 0]
    /\ UNCHANGED <<underlying, heap, nalloc, live, script, pc, pk, shm>>

\* foreach_lambda( fn ) with an fn that records its arguments: ret is the
\* list of the calls
Foreach ==
    /\ last' = [op |-> "foreach", k |-> empty_key,
                ret |-> foreach_lambda(Self, 0), n0 |-> count(Self)]
    /\ UNCHANGED <<underlying, heap, nalloc, live, script, pc, pk, shm>>

Next ==
    \/ \E k \in Keys \cup {empty_key}, v \in Vals : Emplace(k, v)
    \/ \E k \in Keys \cup {empty_key} : Rm(k)
    \/ Clear
    \/ \E k \in Keys \cup {empty_key} : Get(k)
    \/ Foreach

Spec == Init /\ [][Next]_vars

(***************************************************************************)
(* A client that runs a fixed script of calls on a fresh HashMap: script   *)
(* is the list of calls, pc the number of them made so far.                *)
(***************************************************************************)
ScriptEmplace ==
    /\ pc < Len(script)
    /\ script[pc + 1].op = "emplace"
    /\ LET o == script[pc + 1]
           r == emplace(Self, o.k, o.v)
       IN /\ Becomes(r.s)
          /\ live' = IF r.ret THEN Put(live, o.k, o.v) ELSE live
          /\ last' = [op |-> "emplace", k |-> o.k, ret |-> r.ret, n0 |-> 0]
    /\ pc' = pc + 1
    /\ UNCHANGED <<script, pk, shm>>

ScriptRm ==
    /\ pc < Len(script)
    /\ script[pc + 1].op = "rm"
    /\ LET o == script[pc + 1]
       IN /\ Becomes(rm(Self, o.k))
          /\ live' = Drop(live, o.k)
          /\ last' = [op |-> "rm", k |-> o.k, ret |-> FALSE, n0 |-> count(Self)]
    /\ pc' = pc + 1
    /\ UNCHANGED <<script, pk, shm>>

InitScript(scripts) ==
    /\ underlying = HashMap.u
    /\ heap = HashMap.heap
    /\ nalloc = HashMap.nalloc
    /\ live = NoSlots
    /\ last = [op |-> "new", k |-> empty_key, ret |-> FALSE, n0 |-> 0]
    /\ script \in scripts
    /\ pc = 0
    /\ pk = 0
    /\ shm = 0

Call(op, k, v) == [op |-> op, k |-> k, v |-> v]

\* insert(a,1); insert(b,2); insert(c,3); rm(b); insert(d,4) for distinct
\* keys: 1, 129, 257 and 385 hash to slot 21 of a table of 2^7 slots, whose
\* probe window has its four slots
DelKeys == Keys \cup {1, 129, 257, 385}
DelScripts ==
    {<<Call("emplace", a, 1), Call("emplace", b, 2), Call("emplace", c, 3),
       Call("rm", b, 0), Call("emplace", d, 4)>> :
        <<a, b, c, d>> \in {q \in DelKeys \X DelKeys \X DelKeys \X DelKeys :
                              Cardinality({q[1], q[2], q[3], q[4]}) = 4}}

InitDel == InitScript(DelScripts)
NextDel == ScriptEmplace \/ ScriptRm
SpecDel == InitDel /\ [][NextDel]_vars

\* GrowN inserts of the keys start, start + stride, start + 2 * stride, ...
GrowN == 130
GrowStarts == {1, 3267}
GrowStrides == {1, 2, 128, 16384}
GrowScripts ==
    {[i \in 1 .. GrowN |-> Call("emplace", start + ((i - 1) * stride), 1 + (i % 3))] :
        start \in GrowStarts, stride \in GrowStrides}

InitGrow == InitScript(GrowScripts)
NextGrow == ScriptEmplace
SpecGrow == InitGrow /\ [][NextGrow]_vars

(***************************************************************************)
(* Properties of the HashMap                                               *)
(***************************************************************************)

\* C1: every key whose last successful emplace was not followed by rm of it
\* or by clear is found by get_index_for_key, with the value of that emplace,
\* after it has read at most probe_limit key slots.
C1_ProbeBound ==
    \A k \in DOMAIN live :
        LET r == probe(Self, underlying, k)
        IN /\ r.found
           /\ values(Self, underlying)[r.at] = live[k]
           /\ r.examined <= probe_limit

\* C2: on a fresh table, after insert(a,1); insert(b,2); insert(c,3); rm(b)
\* with distinct keys, get(b) is absent, get(a) is 1 and get(c) is 3; and an
\* insert of a new key d whose probe window is that of b then returns true
\* and d is retrievable.
C2_DeletionCorrect ==
    [][/\ pc' = 4 =>
            /\ get(Self', script[2].k) = Nothing
            /\ get(Self', script[1].k) = 1
            /\ get(Self', script[3].k) = 3
       /\ (/\ pc = 4
           /\ pc' = 5
           /\ probe_start_of(underlying, script[5].k)
                = probe_start_of(underlying, script[2].k)) =>
            /\ last'.ret = TRUE
            /\ get(Self', script[5].k) = 4]_vars

C4_PresentKeyNoOp ==
    [][(last'.op = "emplace" /\ last'.k \in DOMAIN live) =>
           (last'.ret = FALSE /\ UNCHANGED hmvars)]_vars

\* C5: for a key that no slot of the table holds, insert returns true and a
\* second insert of it returns false, and the number of occupied slots is one
\* more after the two calls than before them.
C5_NoDoubleCount ==
    [][(/\ last'.op = "emplace"
        /\ last'.k # empty_key
        /\ ~Stored(Self, last'.k)) =>
           /\ last'.ret = TRUE
           /\ \A v \in Vals :
                 LET second == insert(Self', last'.k, v)
                 IN /\ second.ret = FALSE
                    /\ count(second.s) = count(Self) + 1]_vars

\* C6: emplace of the empty key returns false and changes neither the key
\* array, nor the value array, nor the capacity, nor the allocation.
C6_SentinelExcluded ==
    [][(last'.op = "emplace" /\ last'.k = empty_key) =>
           (last'.ret = FALSE /\ UNCHANGED hmvars)]_vars

C6_SentinelRefused ==
    /\ last.op = "emplace"
    /\ last.k = empty_key
    /\ last.ret = FALSE
    /\ count(Self) > 0

\* C7: after clear no slot is occupied, get reports every key absent, and a
\* second clear changes nothing.
C7_ClearEmpties ==
    [][last'.op = "clear" =>
           /\ count(Self') = 0
           /\ \A k \in Keys : get(Self', k) = Nothing
           /\ clear(Self') = Self']_vars

C7_Cleared ==
    /\ last.op = "clear"
    /\ last.n0 >= 2
    /\ count(Self) = 0

(***************************************************************************)
(* Packing a pointer and a number: pk.p and pk.n are the pair handed to a  *)
(* container, pk.q and pk.m a second pair, for a comparison or for a       *)
(* setter called afterwards; pk.shl and pk.junk are what the build makes   *)
(* of the undefined shift and of the uninitialised member; pk.made is the  *)
(* container built, pk.w its word and pk.x the word of the container built *)
(* from the second pair; pk.set is the setter then called on the           *)
(* container and pk.v its word after that; pk.fatal tells that an          *)
(* assertion has ended the program.                                        *)
(***************************************************************************)
HighHalf == (significant_bits - 1) .. (WordWidth - 1)

\* 64-byte aligned canonical pointers of the low and of the high half
PackPointers == {{}, {6}, {12}, {6, 30, 46}, HighHalf, HighHalf \cup {6}, HighHalf \cup {12, 40}}
\* canonical pointers that are not 64-byte aligned
OddPointers == {{0, 12}, HighHalf \cup {3}}
\* pointers that are not canonical
WildPointers == {{6, 50}, {3, 60}}

MaxCount == 2 ^ 22
PackNums == {WordOf(n) : n \in {0, 1, 5, 63, 64, 65, 4097, 65535, MaxCount - 1}}

Canonical(p) == (HighHalf \subseteq p) \/ (HighHalf \cap p = {})
Below(n, bound) == \A i \in n : (2 ^ i) < bound

InitPack ==
    /\ underlying = HashMap.u
    /\ heap = HashMap.heap
    /\ nalloc = HashMap.nalloc
    /\ live = NoSlots
    /\ last = [op |-> "new", k |-> empty_key, ret |-> FALSE, n0 |-> 0]
    /\ script = <<>>
    /\ pc = 0
    /\ shm = 0
    /\ pk \in [p : PackPointers \cup OddPointers \cup WildPointers, n : PackNums,
               q : {{}, {6}, HighHalf \cup {12}, {3, 60}}, m : {WordOf(1), WordOf(65)},
               shl : {"zero", "wrap"}, junk : {{}, Bit},
               made : {"none"}, w : {{}}, x : {{}},
               set : {"none"}, v : {{}}, fatal : {FALSE}]

Made(how, fatal, w, x) ==
    /\ pk.made = "none"
    /\ pk' = [pk EXCEPT !.made = how, !.fatal = fatal, !.w = w, !.x = x]
    /\ UNCHANGED <<underlying, heap, nalloc, live, last, script, pc, shm>>

Setter(which, fatal, v) ==
    /\ pk.set = "none"
    /\ ~pk.fatal
    /\ pk' = [pk EXCEPT !.set = which, !.fatal = fatal, !.v = v]
    /\ UNCHANGED <<underlying, heap, nalloc, live, last, script, pc, shm>>

\* AlignedPointerContainer< T, size_t, 64 >( p, n )
PackAlignedCtor ==
    /\ Below(pk.n, 2 ^ align_bits)
    /\ Made("aligned_ctor", FALSE, APC_ctor(pk.p, pk.n), {})

\* AlignedPointerContainer< T, size_t, 64 > c; c.setPtr( p ); c.setNum( n )
PackAlignedSet ==
    /\ Below(pk.n, 2 ^ align_bits)
    /\ IF APC_setPtr_aligned(pk.p)
       THEN Made("aligned_set", FALSE, APC_setNum(APC_setPtr(APC_default, pk.p), pk.n), {})
       ELSE Made("aligned_set", TRUE, APC_default, {})

\* PointerMSBContainer< T >( p, n )
PackMSB ==
    /\ Below(pk.n, 2 ^ inttype_bits)
    /\ Made("msb", FALSE, MSB_ctor(pk.junk, pk.p, pk.n, pk.shl), {})

\* FatPointer< T >( p, n ) and FatPointer< T >( q, m )
PackFat ==
    /\ Below(pk.n, MaxCount)
    /\ pk.p \in PackPointers
    /\ Made("fat", FALSE, Fat_ctor(pk.p, pk.n), Fat_ctor(pk.q, pk.m))

\* c.setNum( m ) on an AlignedPointerContainer
SetAlignedNum ==
    /\ pk.made \in {"aligned_ctor", "aligned_set"}
    /\ Below(pk.m, 2 ^ align_bits)
    /\ Setter("aligned_num", FALSE, APC_setNum(pk.w, pk.m))

\* c.setPtr( q ) on an AlignedPointerContainer
SetAlignedPtr ==
    /\ pk.made \in {"aligned_ctor", "aligned_set"}
    /\ IF APC_setPtr_aligned(pk.q)
       THEN Setter("aligned_ptr", FALSE, APC_setPtr(pk.w, pk.q))
       ELSE Setter("aligned_ptr", TRUE, pk.w)

\* c.setNum( m ) on a PointerMSBContainer
SetMSBNum ==
    /\ pk.made = "msb"
    /\ Below(pk.m, 2 ^ inttype_bits)
    /\ Setter("msb_num", FALSE, MSB_setNum(pk.w, pk.m, pk.shl))

\* c.setPtr( q ) on a PointerMSBContainer
SetMSBPtr ==
    /\ pk.made = "msb"
    /\ Setter("msb_ptr", FALSE, MSB_setPtr(pk.w, pk.q, pk.shl))

NextPack ==
    \/ PackAlignedCtor
    \/ PackAlignedSet
    \/ PackMSB
    \/ PackFat
    \/ SetAlignedNum
    \/ SetAlignedPtr
    \/ SetMSBNum
    \/ SetMSBPtr
SpecPack == InitPack /\ [][NextPack]_vars

\* C8: an AlignedPointerContainer made of a 64-byte aligned pointer p and a
\* number n of 0..63, by the constructor or by setPtr and setNum, gives back
\* p as ptr() and n as num().
C8_AlignedRoundTrip ==
    (pk.made \in {"aligned_ctor", "aligned_set"} /\ APC_setPtr_aligned(pk.p)) =>
        (APC_ptr(pk.w) = pk.p /\ APC_num(pk.w) = pk.n)

\* C9: a PointerMSBContainer made of a canonical pointer p and a 16-bit
\* number n gives back p as ptr() and n as num().
C9_CanonicalRoundTrip ==
    (pk.made = "msb" /\ Canonical(pk.p)) =>
        (MSB_ptr(pk.w, pk.shl) = pk.p /\ MSB_num(pk.w, pk.shl) = pk.n)

\* C10: a FatPointer made of a 64-byte aligned canonical pointer p and a
\* count n below 2^22 gives back p as ptr(), n as length() and n * sizeof(T)
\* as size(), and two FatPointers are == exactly when their pointers and
\* their counts are equal.
C10_FatRoundTrip ==
    pk.made = "fat" =>
        /\ Fat_ptr(pk.w, pk.shl) = pk.p
        /\ Fat_length(pk.w, pk.shl) = pk.n
        /\ Fat_size(pk.w, pk.shl) = Mul(pk.n, WordOf(sizeof_T))
        /\ Fat_eq(pk.w, pk.x, pk.shl) <=> (pk.p = pk.q /\ pk.n = pk.m)

\* C12: on both containers setNum leaves ptr() as it was and setPtr leaves
\* num() as it was, for a number that fits the number field and a pointer
\* that meets the precondition of the encoding, whatever the word held.
C12_FieldIndependence ==
    /\ pk.set = "aligned_num" => APC_ptr(pk.v) = APC_ptr(pk.w)
    /\ (pk.set = "aligned_ptr" /\ APC_setPtr_aligned(pk.q)) =>
           APC_num(pk.v) = APC_num(pk.w)
    /\ pk.set = "msb_num" => MSB_ptr(pk.v, pk.shl) = MSB_ptr(pk.w, pk.shl)
    /\ (pk.set = "msb_ptr" /\ Canonical(pk.q)) =>
           MSB_num(pk.v, pk.shl) = MSB_num(pk.w, pk.shl)

\* C13: whichever way a container is given a pointer that breaks the
\* precondition of its encoding (a pointer that is no multiple of 64 for the
\* AlignedPointerContainer, a pointer that is not canonical for the
\* PointerMSBContainer), by a constructor or by setPtr, an assertion ends
\* the program.
C13_PreconditionEnforced ==
    /\ (pk.made \in {"aligned_ctor", "aligned_set"} /\ ~APC_setPtr_aligned(pk.p)) => pk.fatal
    /\ (pk.made = "msb" /\ ~Canonical(pk.p)) => pk.fatal
    /\ (pk.set = "aligned_ptr" /\ ~APC_setPtr_aligned(pk.q)) => pk.fatal
    /\ (pk.set = "msb_ptr" /\ ~Canonical(pk.q)) => pk.fatal

(***************************************************************************)
(* Capacity of the HashMap                                                 *)
(***************************************************************************)

\* C11: the capacity changes only by growth inside emplace and never
\* decreases, and a growth takes the stored exponent from e to e + 1, so
\* that the capacity exactly doubles.
C11_CapacityDoubles ==
    [][/\ length(underlying') >= length(underlying)
       /\ last'.op # "emplace" => length(underlying') = length(underlying)
       /\ length(underlying') # length(underlying) =>
              length_power(increase_length_power(underlying))
                  = length_power(underlying) + 1]_vars

(***************************************************************************)
(* Calls with a key the table does not hold                                *)
(***************************************************************************)

\* C14: rm of a key that get reports absent changes neither the key array,
\* nor the value array, nor the capacity; and get of a key that no slot holds
\* returns Nothing and changes nothing of the table.
C14_AbsentTolerated ==
    [][/\ (last'.op = "rm" /\ get(Self, last'.k) = Nothing) => UNCHANGED hmvars
       /\ (last'.op = "get" /\ ~Stored(Self, last'.k)) =>
              (last'.ret = Nothing /\ UNCHANGED hmvars)]_vars

C14_AbsentRemoved ==
    /\ last.op = "rm"
    /\ last.k # empty_key
    /\ last.n0 = count(Self)
    /\ count(Self) > 0

(***************************************************************************)
(* Keys that share a probe window at every capacity: their primary hashes  *)
(* differ by multiples of 2^28, so that the low 28 bits of hash_secondary  *)
(* are the same for all of them.                                           *)
(***************************************************************************)
MaxCollide == 5
CollideKeys == {1 + (j * (limb * limb)) : j \in 0 .. MaxCollide}
CollideScripts ==
    {<<Call("emplace", q[1], 1), Call("emplace", q[2], 1), Call("emplace", q[3], 1),
       Call("emplace", q[4], 1), Call("emplace", q[5], 1)>> :
        q \in {r \in [1 .. 5 -> CollideKeys] : Cardinality({r[i] : i \in 1 .. 5}) = 5}}

InitCollide == InitScript(CollideScripts)
NextCollide == ScriptEmplace
SpecCollide == InitCollide /\ [][NextCollide]_vars

\* C15: from every reachable table an emplace of a key other than the empty
\* key returns after finitely many rounds of growth and retry, without the
\* growth leaving the range in which the capacity is defined.
C15_EmplaceCompletes ==
    (pc < Len(script) /\ script[pc + 1].op = "emplace") =>
        ~emplace(Self, script[pc + 1].k, script[pc + 1].v).s.ub

(***************************************************************************)
(* StaticHashMap< K, V, _hash, eq >, with an integer key, the value 0 as   *)
(* its empty key, and standard_hash.  A map is a record: length, the key   *)
(* array keys and the value array vals, both kept sparsely as for the      *)
(* HashMap; dead tells that an assertion has ended the program.            *)
(***************************************************************************)
hash_multiplier_2 == 7063
hash_multiplier_3 == 3550
hash_multiplier_4 == 158
\* the bits of a 64-bit word that its fifth 14-bit limb holds
top_limb == 2 ^ (WordWidth - (4 * 14))

\* hash_secondary as a 64-bit product, in its five 14-bit limbs, for a
\* primary hash below 2^14
hash_secondary_limbs(k) ==
    LET x == standard_hash(k)
        p0 == x * hash_multiplier_lo
        p1 == (x * hash_multiplier_hi) + (p0 \div limb)
        p2 == (x * hash_multiplier_2) + (p1 \div limb)
        p3 == (x * hash_multiplier_3) + (p2 \div limb)
        p4 == (x * hash_multiplier_4) + (p3 \div limb)
    IN <<p0 % limb, p1 % limb, p2 % limb, p3 % limb, p4 % top_limb>>

\* StaticHashMap::hash: hash_secondary( x ) % map_length
SHM_hash(k, map_length) ==
    LET l == hash_secondary_limbs(k)
        r1 == limb % map_length
        r2 == (limb * limb) % map_length
        r3 == (r1 * r2) % map_length
        r4 == (r2 * r2) % map_length
    IN (l[1] + (l[2] * r1) + (l[3] * r2) + (l[4] * r3) + (l[5] * r4)) % map_length

\* StaticHashMap( size_t a_length, K an_empty_key ), with its assert( length )
SHM_new(a_length) ==
    [length |-> a_length, keys |-> NoSlots, vals |-> NoSlots, dead |-> a_length = 0]

\* the slot that the loops of the two lookups read in round i
SHM_slot(m, k, i) == (SHM_hash(k, m.length) + i) % m.length

SHM_get_index_for_key(m, k) ==
    LET hits == {i \in 0 .. (m.length - 1) : At(m.keys, SHM_slot(m, k, i)) = k}
    IN IF hits = {} THEN no_index ELSE SHM_slot(m, k, Least(hits))

SHM_get_new_index_for_key(m, k) ==
    LET free == {i \in 0 .. (m.length - 1) : At(m.keys, SHM_slot(m, k, i)) = empty_key}
    IN IF free # {}
       THEN SHM_slot(m, k, Least(free))
       ELSE IF m.length > 0 THEN no_index - 1 ELSE no_index

SHM_get(m, k) ==
    LET index == SHM_get_index_for_key(m, k)
    IN IF index # no_index THEN m.vals[index] ELSE Nothing

\* insert( k, v ): the map afterwards and the value returned
SHM_insert(m, k, v) ==
    LET index == SHM_get_new_index_for_key(m, k)
    IN IF index = no_index
       THEN [m |-> m, ret |-> TRUE]
       ELSE IF index = no_index - 1
            THEN [m |-> m, ret |-> FALSE]
            ELSE [m |-> [m EXCEPT !.keys = Put(@, index, k), !.vals = Put(@, index, v)],
                  ret |-> TRUE]

\* emplace( k, args... )
SHM_emplace(m, k, v) ==
    LET index == SHM_get_new_index_for_key(m, k)
    IN IF index = no_index
       THEN [m |-> m, ret |-> TRUE]
       ELSE IF index = no_index - 1
            THEN [m |-> m, ret |-> FALSE]
            ELSE [m |-> [m EXCEPT !.keys = Put(@, index, k), !.vals = Put(@, index, v)],
                  ret |-> TRUE]

SHM_rm(m, k) ==
    LET index == SHM_get_index_for_key(m, k)
    IN IF index # no_index
       THEN [m EXCEPT !.keys = Drop(@, index), !.vals = Drop(@, index)]
       ELSE m

SHM_count(m) == Cardinality(DOMAIN m.keys)
SHM_empty(m) == SHM_count(m) = 0
SHM_has(m, k) == \E i \in DOMAIN m.keys : m.keys[i] = k

(***************************************************************************)
(* A client of one StaticHashMap of StaticLength slots; last is the call   *)
(* just made and its result, n0 the count() the call found.                *)
(***************************************************************************)
StaticLength == 3
SmallKeys == 1 .. 3

InitStatic ==
    /\ underlying = HashMap.u
    /\ heap = HashMap.heap
    /\ nalloc = HashMap.nalloc
    /\ live = NoSlots
    /\ last = [op |-> "new", k |-> empty_key, ret |-> FALSE, n0 |-> 0]
    /\ script = <<>>
    /\ pc = 0
    /\ pk = 0
    /\ shm = SHM_new(StaticLength)

StaticCall(op, k, r) ==
    /\ shm' = r.m
    /\ last' = [op |-> op, k |-> k, ret |-> r.ret, n0 |-> SHM_count(shm)]
    /\ UNCHANGED <<underlying, heap, nalloc, live, script, pc, pk>>

StaticInsert(k, v) == StaticCall("insert", k, SHM_insert(shm, k, v))
StaticEmplace(k, v) == StaticCall("emplace", k, SHM_emplace(shm, k, v))
StaticRm(k) == StaticCall("rm", k, [m |-> SHM_rm(shm, k), ret |-> FALSE])

NextStatic ==
    \/ \E k \in SmallKeys, v \in Vals : StaticInsert(k, v)
    \/ \E k \in SmallKeys, v \in Vals : StaticEmplace(k, v)
    \/ \E k \in SmallKeys : StaticRm(k)
SpecStatic == InitStatic /\ [][NextStatic]_vars

\* C16: insert and emplace of a key that the StaticHashMap already holds
\* return true and change no slot of the key array or of the value array,
\* so that count() stays and no second copy of the key is stored; and
\* get_new_index_for_key returns no_index for such a key.
C16_PresentKeyKept ==
    [][(last'.op \in {"insert", "emplace"} /\ SHM_has(shm, last'.k)) =>
           /\ last'.ret = TRUE
           /\ shm' = shm
           /\ SHM_count(shm') = SHM_count(shm)
           /\ SHM_get_new_index_for_key(shm, last'.k) = no_index]_vars

(***************************************************************************)
(* HashMapLF100< K, V, _hash, eq >: its member underlying is a             *)
(* StaticHashMap, here the variable shm.                                   *)
(***************************************************************************)
RECURSIVE SHM_foreach_insert(_, _, _)
\* foreach_lambda of the map x, calling StaticHashMap::insert on the map m
SHM_foreach_insert(m, x, i) ==
    LET rest == OccupiedFrom(x.keys, i)
    IN IF rest = {}
       THEN m
       ELSE LET j == Least(rest)
            IN SHM_foreach_insert(SHM_insert(m, x.keys[j], x.vals[j]).m, x, j + 1)

\* StaticHashMap( own_type* x ): a map of the same length, filled by insert
SHM_copy(x) ==
    IF x.dead THEN x ELSE SHM_foreach_insert(SHM_new(x.length), x, 0)

\* operator=( own_type x ): the map is destroyed and built again from x
SHM_assign(x) == SHM_copy(x)

\* HashMapLF100( K empty_key ) : underlying( 1, empty_key )
HashMapLF100 == SHM_new(1)

RECURSIVE LF_insert(_, _, _), LF_resize(_, _), LF_foreach_insert(_, _, _)

\* foreach_lambda of the map x, calling HashMapLF100::insert on the map m
LF_foreach_insert(m, x, i) ==
    LET rest == OccupiedFrom(x.keys, i)
    IN IF rest = {} \/ m.dead
       THEN m
       ELSE LET j == Least(rest)
            IN LF_foreach_insert(LF_insert(m, x.keys[j], x.vals[j]).m, x, j + 1)

\* the body that increase_size_by_1 and decrease_size_by_1 share: a copy x
\* of underlying is taken, underlying becomes a map of the new length, and
\* the entries of x are given to insert
LF_resize(m, new_length) ==
    LET x == SHM_copy(m)
    IN LF_foreach_insert(SHM_assign(SHM_new(new_length)), x, 0)

LF_increase_size_by_1(m) == LF_resize(m, m.length + 1)
LF_decrease_size_by_1(m) == LF_resize(m, m.length - 1)

\* HashMapLF100::insert
LF_insert(m, k, v) ==
    IF m.dead
    THEN [m |-> m, ret |-> FALSE]
    ELSE SHM_insert(IF ~SHM_empty(m) THEN LF_increase_size_by_1(m) ELSE m, k, v)

\* HashMapLF100::emplace
LF_emplace(m, k, v) ==
    IF m.dead
    THEN [m |-> m, ret |-> FALSE]
    ELSE SHM_emplace(IF ~SHM_empty(m) THEN LF_increase_size_by_1(m) ELSE m, k, v)

\* HashMapLF100::rm
LF_rm(m, k) ==
    LET n == SHM_count(m)
        removed == SHM_rm(m, k)
    IN IF SHM_count(removed) # n THEN LF_decrease_size_by_1(removed) ELSE removed

(***************************************************************************)
(* A client of one HashMapLF100 that inserts keys the map does not hold    *)
(* and removes keys, as long as the map holds fewer than MaxEntries        *)
(* entries and has at most MaxLength slots.                                *)
(***************************************************************************)
MaxEntries == 3
MaxLength == 8

InitLF ==
    /\ underlying = HashMap.u
    /\ heap = HashMap.heap
    /\ nalloc = HashMap.nalloc
    /\ live = NoSlots
    /\ last = [op |-> "new", k |-> empty_key, ret |-> FALSE, n0 |-> 0]
    /\ script = <<>>
    /\ pc = 0
    /\ pk = 0
    /\ shm = HashMapLF100

LFCall(op, k, r) ==
    /\ ~r.m.dead
    /\ shm' = r.m
    /\ last' = [op |-> op, k |-> k, ret |-> r.ret, n0 |-> SHM_count(shm)]
    /\ UNCHANGED <<underlying, heap, nalloc, live, script, pc, pk>>

LFInsert(k, v) ==
    /\ ~SHM_has(shm, k)
    /\ SHM_count(shm) < MaxEntries
    /\ shm.length <= MaxLength
    /\ LFCall("insert", k, LF_insert(shm, k, v))

LFEmplace(k, v) ==
    /\ ~SHM_has(shm, k)
    /\ SHM_count(shm) < MaxEntries
    /\ shm.length <= MaxLength
    /\ LFCall("emplace", k, LF_emplace(shm, k, v))

LFRm(k) == LFCall("rm", k, [m |-> LF_rm(shm, k), ret |-> FALSE])

NextLF ==
    \/ \E k \in SmallKeys, v \in Vals : LFInsert(k, v)
    \/ \E k \in SmallKeys, v \in Vals : LFEmplace(k, v)
    \/ \E k \in SmallKeys : LFRm(k)
SpecLF == InitLF /\ [][NextLF]_vars

\* C17: whenever the HashMapLF100 holds an entry, after any inserts,
\* emplaces and removals of distinct keys, the length of its StaticHashMap
\* equals count(): every slot is occupied.
C17_LoadFactorFull ==
    SHM_count(shm) > 0 => shm.length = SHM_count(shm)

\* ---------------------------------------------------------------------
\* Layout of the one allocation of a StaticHashMap: the key array, padded,
\* then the value array.  sizeof_key, alignof_value are the template
\* arguments' sizeof( K ) and alignof( V ).
\* ---------------------------------------------------------------------
key_arr_len_in_bytes(sizeof_key, alignof_value, a_length) ==
    (a_length * sizeof_key) + ((a_length * sizeof_key) % alignof_value)

overall_arr_len_in_bytes(sizeof_key, alignof_value, sizeof_value, a_length) ==
    key_arr_len_in_bytes(sizeof_key, alignof_value, a_length)
        + (a_length * sizeof_value)

MaxLayoutLength == 8

InitLayout ==
    /\ underlying = HashMap.u
    /\ heap = HashMap.heap
    /\ nalloc = HashMap.nalloc
    /\ live = NoSlots
    /\ last = [op |-> "new", k |-> empty_key, ret |-> FALSE, n0 |-> 0]
    /\ script = <<>>
    /\ pc = 0
    /\ shm = 0
    /\ pk = [length |-> 1, sizeof_key |-> 1, alignof_value |-> 1,
             sizeof_value |-> 1, keys_len |-> 1, overall_len |-> 2]

\* sizeof( V ) is a multiple of alignof( V ), which is a power of two
Layout(sizeof_key, alignof_value, per, a_length) ==
    /\ pk' = [length |-> a_length, sizeof_key |-> sizeof_key,
              alignof_value |-> alignof_value,
              sizeof_value |-> per * alignof_value,
              keys_len |-> key_arr_len_in_bytes(sizeof_key, alignof_value,
                                                a_length),
              overall_len |-> overall_arr_len_in_bytes(sizeof_key,
                                  alignof_value, per * alignof_value,
                                  a_length)]
    /\ last' = [last EXCEPT !.op = "layout"]
    /\ UNCHANGED <<underlying, heap, nalloc, live, script, pc, shm>>

SpecLayout ==
    InitLayout /\ [][\E sizeof_key \in {1, 2, 4, 8, 12},
                        alignof_value \in {1, 2, 4, 8},
                        per \in 1 .. 2,
                        a_length \in 1 .. MaxLayoutLength :
                          Layout(sizeof_key, alignof_value, per, a_length)]_vars

\* C18: for every length >= 1, key size and value alignment, the length of
\* the key array in bytes is at least length * sizeof( K ) and is a
\* multiple of alignof( V ), and the overall length is that offset plus
\* length * sizeof( V ).
C18_FixedTableLayout ==
    last.op = "layout" =>
        /\ pk.keys_len >= pk.length * pk.sizeof_key
        /\ pk.keys_len % pk.alignof_value = 0
        /\ pk.overall_len = pk.keys_len + (pk.length * pk.sizeof_value)

(***************************************************************************)
(* Invariants of the slots of the HashMap                                  *)
(***************************************************************************)

\* C19: in every reachable state every occupied slot i holds a key k with
\* probe_start(k) <= i < probe_start(k) + probe_limit, probe_start(k) being
\* the cacheline-aligned slot of hash_secondary(k) modulo the current
\* capacity; emplace, growth and rm with reshuffle all keep this.
C19_ProbeWindow ==
    \A i \in DOMAIN keys(Self, underlying) :
        LET k == keys(Self, underlying)[i]
        IN /\ probe_start_of(underlying, k) <= i
           /\ i < probe_start_of(underlying, k) + probe_limit

\* a table that has grown and lost an entry since, and still holds one
C19_GrownAndRemoved ==
    /\ length_power(underlying) > initial_length
    /\ last.op = "rm"
    /\ last.n0 > count(Self)
    /\ count(Self) > 0
    /\ C19_ProbeWindow

\* C20: in every reachable state and for every index i of the table,
\* values[i] holds a live value if and only if keys[i] is not the empty
\* key: emplace, rm with reshuffle, clear and double_size leave neither a
\* live value under the empty key nor a dead value under a real key.
C20_SlotLiveness ==
    /\ DOMAIN values(Self, underlying) = DOMAIN keys(Self, underlying)
    /\ \A a \in DOMAIN heap : DOMAIN heap[a].vals = DOMAIN heap[a].keys

\* an entry was removed from a table that still holds another
C20_LiveAfterRemoval ==
    /\ last.op = "rm"
    /\ last.n0 > count(Self)
    /\ count(Self) > 0
    /\ C20_SlotLiveness

(***************************************************************************)
(* The lookup scan of the HashMap                                          *)
(***************************************************************************)

\* C21: get_index_for_key(k) reads only slots of the window from
\* probe_start(k) to the smaller of probe_start(k) + probe_limit and the
\* capacity, in increasing order and never past the array end, stops at the
\* first empty slot, reads at most probe_limit slots, and returns the index
\* of the first slot equal to k that it meets, no_index if it meets none.
C21_LookupScan ==
    \A k \in Keys \cup {empty_key} :
        LET ks == keys(Self, underlying)
            first == probe_start_of(underlying, k)
            bound == IF first + probe_limit < length(underlying)
                     THEN first + probe_limit ELSE length(underlying)
            window == first .. (bound - 1)
            holes == {i \in window : i \notin DOMAIN ks}
            stop == IF holes = {} THEN bound ELSE Least(holes)
            hits == {i \in window : i < stop /\ ks[i] = k}
            r == probe(Self, underlying, k)
        IN /\ bound <= length(underlying)
           /\ r.examined <= probe_limit
           /\ r.at \in first .. stop
           /\ r.examined <= (r.at - first) + 1
           /\ get_index_for_key(Self, underlying, k)
                  = IF hits = {} THEN no_index ELSE Least(hits)

\* a key is found at the second slot of a window that the array end cuts
\* short, and another key is stored but not found
C21_FoundInCutWindow ==
    /\ \E k \in Keys :
           /\ get_index_for_key(Self, underlying, k)
                  = probe_start_of(underlying, k) + 1
           /\ probe_end_of(underlying, k)
                  < probe_start_of(underlying, k) + probe_limit
    /\ C21_LookupScan

(***************************************************************************)
(* The reshuffle after a removal                                           *)
(***************************************************************************)

\* C22: after rm(k) has vacated slot s, if an occupied slot i with
\* s < i < min(s + probe_limit, capacity), reached without crossing an empty
\* slot, holds a key whose cacheline start is at or before s and whose
\* distance to its hashed slot is shorter at s than at i, then the first
\* such entry is moved into s together with its value.
C22_LocalReshuffle ==
    [][LET s == get_index_for_key(Self, underlying, last'.k)
           ks == keys(Self, underlying)
           probe_end == IF s + probe_limit < length(underlying)
                        THEN s + probe_limit ELSE length(underlying)
           wants == {i \in (s + 1) .. (probe_end - 1) :
                        /\ \A j \in (s + 1) .. i : j \in DOMAIN ks
                        /\ align_backwards_to_cacheline(hash(underlying, ks[i])) <= s
                        /\ distance(i, hash(underlying, ks[i]))
                               > distance(s, hash(underlying, ks[i]))}
       IN (last'.op = "rm" /\ s # no_index /\ wants # {}) =>
              /\ At(keys(Self', underlying'), s) = ks[Least(wants)]
              /\ values(Self', underlying')[s] = values(Self, underlying)[Least(wants)]
              /\ At(keys(Self', underlying'), Least(wants)) = empty_key]_vars

(***************************************************************************)
(* The allocations of the HashMap                                          *)
(***************************************************************************)

\* C23: a growth allocates a new array whose key slots are all empty before
\* any entry is inserted again, calls insert with every live (key, value)
\* pair of the old array, and then releases the old allocation exactly once:
\* after every call the table refers to the one live allocation, none was
\* leaked, none is freed twice and none is used after it was freed.
C23_GrowthProtocol ==
    [][LET Pairs(s) == {<<keys(s, s.u)[i], values(s, s.u)[i]>> :
                            i \in DOMAIN keys(s, s.u)}
       IN /\ DOMAIN heap' = {kvs(underlying')}
          /\ nalloc' >= nalloc
          /\ kvs(underlying') # kvs(underlying) <=> nalloc' > nalloc
          /\ nalloc' > nalloc =>
                /\ last'.op = "emplace"
                /\ last'.ret = TRUE
                /\ kvs(underlying') \notin DOMAIN heap
                /\ {p[1] : p \in Pairs(Self')}
                       = {p[1] : p \in Pairs(Self)} \cup {last'.k}
                /\ \A p \in Pairs(Self') : p \in Pairs(Self) \/ p[1] = last'.k
          /\ \A k \in Keys, v \in Vals : ~emplace(Self', k, v).s.ub]_vars

\* a table that grew twice within one call and holds every entry it held
C23_GrewTwice ==
    /\ nalloc >= 3
    /\ count(Self) >= 3
    /\ DOMAIN heap = {kvs(underlying)}

(***************************************************************************)
(* Iteration over the HashMap                                              *)
(***************************************************************************)

\* C24: the foreach functions call fn exactly once for every occupied slot,
\* in strictly increasing order of the slot index, never for a slot that
\* holds the empty key, and change no slot and not the capacity.
C24_Iteration ==
    [][last'.op = "foreach" =>
          LET calls == last'.ret
              ks == keys(Self, underlying)
          IN /\ Len(calls) = Cardinality(DOMAIN ks)
             /\ {calls[n].i : n \in 1 .. Len(calls)} = DOMAIN ks
             /\ \A n \in 1 .. Len(calls) :
                    /\ calls[n].i \in 0 .. (length(underlying) - 1)
                    /\ calls[n].k = ks[calls[n].i]
                    /\ calls[n].k # empty_key
                    /\ calls[n].v = values(Self, underlying)[calls[n].i]
                    /\ n > 1 => calls[n - 1].i < calls[n].i
             /\ underlying' = underlying
             /\ heap' = heap]_vars

\* an iteration over a table with an empty slot between two occupied ones
C24_IteratedOverHole ==
    /\ last.op = "foreach"
    /\ Len(last.ret) >= 2
    /\ \E n \in 1 .. (Len(last.ret) - 1) : last.ret[n + 1].i > last.ret[n].i + 1

(***************************************************************************)
(* Keys over the life of the table                                         *)
(***************************************************************************)

\* C25: in every state reachable by emplace, rm, clear and growth, no key
\* other than the empty key is stored in more than one slot.
C25_KeyUniqueness ==
    \A i, j \in DOMAIN keys(Self, underlying) :
        keys(Self, underlying)[i] = keys(Self, underlying)[j] => i = j

\* C26: once rm(k) has returned, get(k) reports absent in every later state
\* until the next emplace(k) that returns true: no call with another key,
\* and no growth, makes a removed key or an old value of it retrievable.
C26_RemovedStaysRemoved ==
    [][/\ last'.op = "rm" => get(Self', last'.k) = Nothing
       /\ \A k \in Keys :
              (/\ k \notin DOMAIN live
               /\ get(Self, k) = Nothing
               /\ ~(last'.op = "emplace" /\ last'.k = k /\ last'.ret = TRUE)) =>
                  get(Self', k) = Nothing]_vars

(***************************************************************************)
(* The exponent in the packed word                                         *)
(***************************************************************************)

\* C27: in every reachable state, and in the table that the last growth of
\* the next emplace makes, the exponent stored in the packed word is at most
\* 63 and fits the 6 alignment bits, so that set_length_power and
\* increase_length_power leave kvs() alone, and length(), the int 1 shifted
\* by the exponent, is 2 ^ length_power(), the capacity of the allocation.
C27_PackedExponent ==
    LET Fits(u, from) ==
            /\ length_power(u) < 2 ^ align_bits
            /\ kvs(u) = kvs(from)
            /\ ~length_overflows(u)
        r == emplace(Self, script[pc + 1].k, script[pc + 1].v).s
    IN /\ Fits(underlying, underlying)
       /\ Fits(set_length_power(underlying, length_power(underlying)), underlying)
       /\ (pc < Len(script) /\ script[pc + 1].op = "emplace") =>
              /\ Fits(r.u, r.u)
              /\ r.ub => Fits(increase_length_power(r.u), r.u)

(***************************************************************************)
(* Slot indices                                                            *)
(***************************************************************************)

\* C28: every index of a key or value slot that get_index_for_key, emplace,
\* kill_cell, reshuffle, clear and double_size read or write lies in
\* 0 .. capacity - 1 of the current allocation, for every key, also when
\* the array end cuts the probe window short.
C28_IndexBounds ==
    LET cap == length(underlying)
        InBounds(s) ==
            /\ DOMAIN keys(s, s.u) \subseteq 0 .. (length(s.u) - 1)
            /\ DOMAIN values(s, s.u) \subseteq 0 .. (length(s.u) - 1)
    IN /\ InBounds(Self)
       /\ \A k \in Keys \cup {empty_key} :
              LET r == probe(Self, underlying, k)
                  first == probe_start_of(underlying, k)
                  rest == IF r.found
                          THEN IF r.at + probe_limit < cap
                               THEN r.at + probe_limit ELSE cap
                          ELSE 0
              IN /\ 0 <= first
                 /\ probe_end_of(underlying, k) <= cap
                 /\ \A n \in 1 .. r.examined : (first + n) - 1 < cap
                 /\ r.found => r.at \in 0 .. (cap - 1)
                 /\ (~r.found /\ r.at # probe_end_of(underlying, k)) =>
                        r.at \in 0 .. (cap - 1)
                 /\ rest <= cap
                 /\ InBounds(rm(Self, k))
                 /\ \A v \in Vals : InBounds(emplace(Self, k, v).s)
       /\ InBounds(clear(Self))

\* a grown table holds a key in its last slot, where the array end cuts the
\* probe window short
C28_LastSlotUsed ==
    /\ length_power(underlying) > initial_length
    /\ (length(underlying) - 1) \in DOMAIN keys(Self, underlying)
    /\ C28_IndexBounds

(***************************************************************************)
(* RefCountedString.  heap maps the address of every buffer that is        *)
(* allocated and not freed to its contents, of which the model keeps the   *)
(* reference count in front of the characters; nalloc is the number of     *)
(* buffers allocated so far; live maps every constructed handle to its     *)
(* str.  last is the call just made: k its handle, n0 the handle it copied *)
(* from, and ret is TRUE when the call used a buffer that had been freed,  *)
(* after which nothing about the program is defined.                       *)
(***************************************************************************)
MaxHandles == 3
MaxBuffers == 3

InitRcs ==
    /\ underlying = HashMap.u
    /\ heap = NoSlots
    /\ nalloc = 0
    /\ live = NoSlots
    /\ last = [op |-> "new", k |-> 0, ret |-> FALSE, n0 |-> 0]
    /\ script = <<>>
    /\ pc = 0
    /\ pk = 0
    /\ shm = 0

\* RefCountedString( char const* s ) for the handle h: calloc leaves the
\* count 0, ref() makes it 1
RcsNew(h) ==
    /\ ~last.ret
    /\ h \notin DOMAIN live
    /\ nalloc < MaxBuffers
    /\ nalloc' = nalloc + 1
    /\ heap' = Put(heap, nalloc + 1, [refcount |-> 0 + 1])
    /\ live' = Put(live, h, nalloc + 1)
    /\ last' = [op |-> "new", k |-> h, ret |-> FALSE, n0 |-> 0]
    /\ UNCHANGED <<underlying, script, pc, pk, shm>>

\* RefCountedString( RefCountedString const& rcs ) for the handle h
RcsCopy(h, rcs) ==
    /\ ~last.ret
    /\ h \notin DOMAIN live
    /\ rcs \in DOMAIN live
    /\ heap' = [heap EXCEPT ![live[rcs]].refcount = @ + 1]
    /\ live' = Put(live, h, live[rcs])
    /\ last' = [op |-> "copy", k |-> h, ret |-> FALSE, n0 |-> rcs]
    /\ UNCHANGED <<underlying, nalloc, script, pc, pk, shm>>

\* ~RefCountedString() of the handle h: unref(), then free at count 0
RcsDestroy(h) ==
    /\ ~last.ret
    /\ h \in DOMAIN live
    /\ LET unref == [heap EXCEPT ![live[h]].refcount =
                                     IF @ > 0 THEN @ - 1 ELSE @]
       IN heap' = IF unref[live[h]].refcount = 0
                  THEN Drop(unref, live[h])
                  ELSE unref
    /\ live' = Drop(live, h)
    /\ last' = [op |-> "destroy", k |-> h, ret |-> FALSE, n0 |-> 0]
    /\ UNCHANGED <<underlying, nalloc, script, pc, pk, shm>>

\* operator=( x ) of the handle h: the destructor of h, then the copy
\* constructor from x in place, whose ref() writes the count of x.str
RcsAssign(h, x) ==
    /\ ~last.ret
    /\ h \in DOMAIN live
    /\ x \in DOMAIN live
    /\ LET unref == [heap EXCEPT ![live[h]].refcount =
                                     IF @ > 0 THEN @ - 1 ELSE @]
           destroyed == IF unref[live[h]].refcount = 0
                        THEN Drop(unref, live[h])
                        ELSE unref
       IN IF live[x] \in DOMAIN destroyed
          THEN /\ heap' = [destroyed EXCEPT ![live[x]].refcount = @ + 1]
               /\ last' = [op |-> "assign", k |-> h, ret |-> FALSE, n0 |-> x]
          ELSE /\ heap' = destroyed
               /\ last' = [op |-> "assign", k |-> h, ret |-> TRUE, n0 |-> x]
    /\ live' = Put(live, h, live[x])
    /\ UNCHANGED <<underlying, nalloc, script, pc, pk, shm>>

SpecRcs ==
    InitRcs /\ [][\E h \in 1 .. MaxHandles :
                      \/ RcsNew(h)
                      \/ RcsDestroy(h)
                      \/ \E x \in 1 .. MaxHandles : RcsCopy(h, x)
                      \/ \E x \in 1 .. MaxHandles : RcsAssign(h, x)]_vars

\* C29: over any sequence of constructions from a C string, copy
\* constructions, assignments (a = a included) and destructions of handles,
\* the stored count of every buffer is the number of live handles that share
\* it, the buffer is freed when its last handle is destroyed and not before,
\* and no buffer is read or written after it was freed.
C29_RefCounting ==
    /\ ~last.ret
    /\ \A h \in DOMAIN live : live[h] \in DOMAIN heap
    /\ \A a \in DOMAIN heap :
           /\ heap[a].refcount = Cardinality({h \in DOMAIN live : live[h] = a})
           /\ heap[a].refcount > 0

(***************************************************************************)
(* Removal of the last entry of a HashMapLF100                             *)
(***************************************************************************)

\* C30: rm(k) of the only element of a HashMapLF100 completes without an
\* assertion failure and leaves a valid empty map, empty() true and
\* count() 0, into which an insert returns true and is retrievable.
C30_RemovalToEmpty ==
    \A k \in SmallKeys :
        (SHM_count(shm) = 1 /\ SHM_has(shm, k)) =>
            LET m == LF_rm(shm, k)
            IN /\ ~m.dead
               /\ SHM_empty(m)
               /\ SHM_count(m) = 0
               /\ \A k2 \in SmallKeys, v \in Vals :
                      /\ LF_insert(m, k2, v).ret = TRUE
                      /\ SHM_get(LF_insert(m, k2, v).m, k2) = v

====
